---- MODULE Spec2Model ----
(***************************************************************************)
(* A model of two units of gpt-subtrans:                                   *)
(*                                                                         *)
(*   InstructGPTClient._send_messages  (PySubtitle/Providers/OpenAI/       *)
(*       InstructGPTClient.py): one request to the completion service,     *)
(*       retried in a bounded for-loop, with a shared abort flag that      *)
(*       another thread may set at any moment.                             *)
(*                                                                         *)
(*   Command  (GUI/Command.py): a runnable unit of work with an abort      *)
(*       flag, a terminal flag, a list of model updates and a completion   *)
(*       signal commandExecuted(command, success).                         *)
(*                                                                         *)
(* Time is counted in whole units: backoff_time and the delays the service *)
(* names are integers, and 2.0**retry is the integer power 2^retry.        *)
(***************************************************************************)
EXTENDS Integers, Sequences, FiniteSets, TLC

\* ---------------------------------------------------------------- bounds
\* largest value of the max_retries setting that is explored
MaxRetries == 5
\* largest value of the backoff_time setting that is explored
MaxBackoff == 2
\* largest delay (in time units) a rate-limit header may name
MaxDelay == 1
\* largest number of AddModelUpdate calls that is explored
MaxUpdates == 2
\* largest number of Abort() calls on the command that is explored
MaxAborts == 2
\* largest number of commands submitted to the command queue
MaxCommands == 3
\* number of workers of the pool the command queue dispatches to
PoolSize == 2

VARIABLES
    client,       \* the InstructGPTClient: max_retries, backoff_time, aborted
    pc,           \* position of the thread inside _send_messages
    retry,        \* the for-loop variable of _send_messages
    attempt,      \* what the current create() call produced: a result or an exception
    sleep_time,   \* argument of the pending time.sleep call
    response,     \* the keys stored so far in the local dict `response`
    returned,     \* how the call ended: pending, a return value or a raise
    outcomes,     \* history: what the service answered to each request
    sleeps,       \* history: every time.sleep made, with the loop index
    abort_point,  \* history: where the call was when the abort flag was set
    cmd,          \* the Command object's fields
    run_pc,       \* position of the worker thread inside Command.run
    success,      \* the local variable `success` of Command.run
    emitted,      \* history: the success values commandExecuted was emitted with
    execute_log,  \* history: how execute() was entered and left
    abort_calls,  \* history: number of calls of Abort()
    on_abort_calls, \* history: number of calls of the on_abort hook
    flag_log,     \* history: the flags at execute()'s return, at line 70, at emission
    update_log,   \* history: where run() was at each AddModelUpdate call
    undo_result,  \* how the call of undo() ended, if one was made
    queue,        \* the command queue: the submitted commands, in arrival order
    halted,       \* the command queue: a terminal command has completed
    events        \* history: submissions, starts and completions, in order

vars == <<client, pc, retry, attempt, sleep_time, response, returned, outcomes, sleeps,
          abort_point, cmd, run_pc, success, emitted, execute_log, abort_calls, on_abort_calls,
          flag_log, update_log, undo_result, queue, halted, events>>

\* ------------------------------------------------------------ the service
\* a header that is absent or empty (falsy on line 72)
NoHeader == 0
NoException == "none"

\* A faulty Pow2: the backoff grows linearly instead of doubling.
Pow2_Linear(n) == n + 1

\* integer power, as 2.0**retry is used on line 83
RECURSIVE Pow2(_)
Pow2(n) == IF n <= 0 THEN 1 ELSE 2 * Pow2(n - 1)

\* The objects client.completions.create may hand back: a Completion or
\* something else, with or without usage, with no choice, a choice whose text
\* is a string, or a choice whose text is not a string.
Results ==
    [is_completion : BOOLEAN, has_usage : BOOLEAN,
     choices : {"none", "text_str", "text_other"}]

WellFormed(r) == r.is_completion /\ r.choices = "text_str"

\* The headers of a RateLimitError's response: each of the two headers read on
\* line 71 is absent or carries a delay (in time units).
Headers ==
    [reset_requests : {NoHeader} \cup (1..MaxDelay),
     retry_after : {NoHeader} \cup (1..MaxDelay)]

NoResult == [is_completion |-> FALSE, has_usage |-> FALSE, choices |-> "none"]
NoHeaders == [reset_requests |-> NoHeader, retry_after |-> NoHeader]

\* Everything one call of client.completions.create can do.
ServiceOutcomes ==
    [kind : {"result"}, result : Results, headers : {NoHeaders}]
    \cup [kind : {"RateLimitError"}, result : {NoResult}, headers : Headers]
    \cup [kind : {"APITimeoutError", "APIConnectionError", "APIError"},
          result : {NoResult}, headers : {NoHeaders}]

\* An exception of the given type that carries no response.
Exception(t) == [kind |-> t, result |-> NoResult, headers |-> NoHeaders]

\* The name under which an outcome is kept in the history.
OutcomeName(o) ==
    CASE o.kind = "result" ->
            IF WellFormed(o.result) THEN "success" ELSE "malformed"
      [] o.kind = "RateLimitError" ->
            IF o.headers.reset_requests = NoHeader /\ o.headers.retry_after = NoHeader
            THEN "ratelimit_nodelay" ELSE "ratelimit_delay"
      [] o.kind = "APITimeoutError" -> "timeout"
      [] o.kind = "APIConnectionError" -> "connection"
      [] OTHER -> "other"

\* The except clause (lines 70, 81, 88, 92) that catches an exception raised in
\* the try body; the clauses are tried in order and the last one catches every
\* Exception, TranslationResponseError included.
ExceptClause(e) ==
    CASE e = "RateLimitError" -> "except_ratelimit"
      [] e = "APITimeoutError" -> "except_timeout"
      [] e = "APIConnectionError" -> "except_connection"
      [] OTHER -> "except_exception"

\* the abort flag has not been set
NotAborted == [pc |-> "never", requests |-> 0]

Pending == [kind |-> "pending", value |-> "", cause |-> NoException]
Return(v) == [kind |-> "return", value |-> v, cause |-> NoException]
Raise(t, c) == [kind |-> "raise", value |-> t, cause |-> c]

\* --------------------------------------------------------------- initial
ClientInit ==
    /\ client \in [max_retries : 0..MaxRetries, backoff_time : 1..MaxBackoff,
                   aborted : {FALSE}]
    /\ pc = "for"
    /\ retry = 0
    /\ attempt = Exception(NoException)
    /\ sleep_time = 0
    /\ response = {}
    /\ returned = Pending
    /\ outcomes = <<>>
    /\ sleeps = <<>>
    /\ abort_point = NotAborted

\* No call of _send_messages is in progress (the command is studied alone).
ClientIdle ==
    /\ client = [max_retries |-> 0, backoff_time |-> 1, aborted |-> FALSE]
    /\ pc = "done"
    /\ retry = 0
    /\ attempt = Exception(NoException)
    /\ sleep_time = 0
    /\ response = {}
    /\ returned = Pending
    /\ outcomes = <<>>
    /\ sleeps = <<>>
    /\ abort_point = NotAborted

\* Command.__init__, lines 19-33; run() has not been called yet.
CommandInit ==
    /\ cmd = [can_undo |-> TRUE, skip_undo |-> FALSE, is_blocking |-> TRUE,
              started |-> FALSE, executed |-> FALSE, aborted |-> FALSE,
              terminal |-> FALSE, model_updates |-> <<>>]
    /\ run_pc = "created"
    /\ success = FALSE
    /\ emitted = <<>>
    /\ execute_log = <<>>
    /\ abort_calls = 0
    /\ on_abort_calls = 0
    /\ flag_log = <<>>
    /\ update_log = <<>>
    /\ undo_result = "none"

\* The command queue is empty and nothing has been submitted.
QueueInit ==
    /\ queue = <<>>
    /\ halted = FALSE
    /\ events = <<>>

\* ------------------------------------------------ _send_messages, by step
\* Another thread sets the shared abort flag while the call is in progress.
ClientAbort ==
    /\ pc # "done"
    /\ ~client.aborted
    /\ client' = [client EXCEPT !.aborted = TRUE]
    /\ abort_point' = [pc |-> pc, requests |-> Len(outcomes)]
    /\ UNCHANGED <<pc, retry, attempt, sleep_time, response, returned, outcomes, sleeps,
                 cmd, run_pc, success, emitted, execute_log, abort_calls, on_abort_calls>>
    /\ UNCHANGED <<flag_log, update_log, undo_result, queue, halted, events>>

\* A faulty ForLoop: the abort flag is not read at the head of the loop.
ForLoop_NoAbortCheck ==
    /\ pc = "for"
    /\ IF retry > client.max_retries
       THEN /\ returned' = Raise("TranslationImpossibleError", NoException)
            /\ pc' = "done"
       ELSE /\ pc' = "create"
            /\ UNCHANGED returned
    /\ UNCHANGED <<client, retry, attempt, sleep_time, response, outcomes, sleeps,
                 abort_point, cmd, run_pc, success, emitted, execute_log, abort_calls, on_abort_calls>>
    /\ UNCHANGED <<flag_log, update_log, undo_result, queue, halted, events>>

\* A faulty ForLoop: the loop runs over range(max_retries + 2).
ForLoop_OneMore ==
    /\ pc = "for"
    /\ IF retry > client.max_retries + 1
       THEN /\ returned' = Raise("TranslationImpossibleError", NoException)
            /\ pc' = "done"
       ELSE IF client.aborted
       THEN /\ returned' = Return("None")
            /\ pc' = "done"
       ELSE /\ pc' = "create"
            /\ UNCHANGED returned
    /\ UNCHANGED <<client, retry, attempt, sleep_time, response, outcomes, sleeps,
                 abort_point, cmd, run_pc, success, emitted, execute_log, abort_calls, on_abort_calls>>
    /\ UNCHANGED <<flag_log, update_log, undo_result, queue, halted, events>>

\* lines 31-33 and 95: the head of the for loop. When range(max_retries + 1)
\* is used up the loop ends and line 95 raises; otherwise the abort flag is
\* read and the call returns None if it is set.
ForLoop ==
    /\ pc = "for"
    /\ IF retry > client.max_retries
       THEN /\ returned' = Raise("TranslationImpossibleError", NoException)
            /\ pc' = "done"
       ELSE IF client.aborted
       THEN /\ returned' = Return("None")
            /\ pc' = "done"
       ELSE /\ pc' = "create"
            /\ UNCHANGED returned
    /\ UNCHANGED <<client, retry, attempt, sleep_time, response, outcomes, sleeps,
                 abort_point, cmd, run_pc, success, emitted, execute_log, abort_calls, on_abort_calls>>
    /\ UNCHANGED <<flag_log, update_log, undo_result, queue, halted, events>>

\* lines 36-42: the request. The service answers with a result object or the
\* openai client raises; an exception goes to the except clause that catches it.
Create ==
    /\ pc = "create"
    /\ \E o \in ServiceOutcomes :
        /\ attempt' = o
        /\ outcomes' = Append(outcomes, OutcomeName(o))
        /\ pc' = IF o.kind = "result" THEN "received" ELSE ExceptClause(o.kind)
    /\ UNCHANGED <<client, retry, sleep_time, response, returned, sleeps,
                 abort_point, cmd, run_pc, success, emitted, execute_log, abort_calls, on_abort_calls>>
    /\ UNCHANGED <<flag_log, update_log, undo_result, queue, halted, events>>

\* The keys lines 50-63 store in `response` before the first raise, or all of
\* them when nothing is raised.
ResponseKeys(r) ==
    {"response_time"}
    \cup (IF r.has_usage THEN {"prompt_tokens", "output_tokens", "total_tokens"} ELSE {})
    \cup (IF r.choices = "text_str" THEN {"finish_reason", "text"} ELSE {})

\* lines 44-68: a result came back. The abort flag is read again; then the
\* shape of the result is checked, and a malformed one raises
\* TranslationResponseError inside the try body.
Received ==
    /\ pc = "received"
    /\ IF client.aborted
       THEN /\ returned' = Return("None")
            /\ pc' = "done"
            /\ UNCHANGED <<attempt, response>>
       ELSE IF ~attempt.result.is_completion
       THEN /\ attempt' = Exception("TranslationResponseError")
            /\ pc' = ExceptClause("TranslationResponseError")
            /\ UNCHANGED <<returned, response>>
       ELSE IF attempt.result.choices # "text_str"
       THEN /\ attempt' = Exception("TranslationResponseError")
            /\ response' = response \cup ResponseKeys(attempt.result)
            /\ pc' = ExceptClause("TranslationResponseError")
            /\ UNCHANGED returned
       ELSE /\ response' = response \cup ResponseKeys(attempt.result)
            /\ returned' = Return("response")
            /\ pc' = "done"
            /\ UNCHANGED attempt
    /\ UNCHANGED <<client, retry, sleep_time, outcomes, sleeps,
                 abort_point, cmd, run_pc, success, emitted, execute_log, abort_calls, on_abort_calls>>
    /\ UNCHANGED <<flag_log, update_log, undo_result, queue, halted, events>>

\* A faulty RetryAfter: only the Retry-After header is read.
RetryAfter_OneHeader(h) == h.retry_after

\* line 71: headers.get('x-ratelimit-reset-requests') or headers.get('Retry-After')
RetryAfter(h) ==
    IF h.reset_requests # NoHeader THEN h.reset_requests ELSE h.retry_after

\* A faulty ExceptRateLimit: without a delay the error is wrapped like any
\* other error instead of being raised again.
ExceptRateLimit_Wrapped ==
    /\ pc = "except_ratelimit"
    /\ IF RetryAfter(attempt.headers) # NoHeader
       THEN /\ sleep_time' = RetryAfter(attempt.headers)
            /\ pc' = "sleep"
            /\ UNCHANGED returned
       ELSE /\ returned' = Raise("TranslationImpossibleError", attempt.kind)
            /\ pc' = "done"
            /\ UNCHANGED sleep_time
    /\ UNCHANGED <<client, retry, attempt, response, outcomes, sleeps,
                 abort_point, cmd, run_pc, success, emitted, execute_log, abort_calls, on_abort_calls>>
    /\ UNCHANGED <<flag_log, update_log, undo_result, queue, halted, events>>

\* lines 70-79: a rate-limit error. With a delay in the headers the delay is
\* slept and the loop continues; without one the error is raised again.
ExceptRateLimit ==
    /\ pc = "except_ratelimit"
    /\ IF RetryAfter(attempt.headers) # NoHeader
       THEN /\ sleep_time' = RetryAfter(attempt.headers)
            /\ pc' = "sleep"
            /\ UNCHANGED returned
       ELSE /\ returned' = Raise("RateLimitError", NoException)
            /\ pc' = "done"
            /\ UNCHANGED sleep_time
    /\ UNCHANGED <<client, retry, attempt, response, outcomes, sleeps,
                 abort_point, cmd, run_pc, success, emitted, execute_log, abort_calls, on_abort_calls>>
    /\ UNCHANGED <<flag_log, update_log, undo_result, queue, halted, events>>

\* A faulty ExceptTimeout: the backoff is slept after the last attempt too.
ExceptTimeout_SleepAfterLast ==
    /\ pc = "except_timeout"
    /\ IF retry <= client.max_retries /\ ~client.aborted
       THEN /\ sleep_time' = client.backoff_time * Pow2(retry)
            /\ pc' = "sleep"
            /\ UNCHANGED retry
       ELSE /\ retry' = retry + 1
            /\ pc' = "for"
            /\ UNCHANGED sleep_time
    /\ UNCHANGED <<client, attempt, response, returned, outcomes, sleeps,
                 abort_point, cmd, run_pc, success, emitted, execute_log, abort_calls, on_abort_calls>>
    /\ UNCHANGED <<flag_log, update_log, undo_result, queue, halted, events>>

\* lines 81-86: a timeout. While retries remain and the flag is not set the
\* backoff is slept; otherwise the clause ends and the loop goes on.
ExceptTimeout ==
    /\ pc = "except_timeout"
    /\ IF retry < client.max_retries /\ ~client.aborted
       THEN /\ sleep_time' = client.backoff_time * Pow2(retry)
            /\ pc' = "sleep"
            /\ UNCHANGED retry
       ELSE /\ retry' = retry + 1
            /\ pc' = "for"
            /\ UNCHANGED sleep_time
    /\ UNCHANGED <<client, attempt, response, returned, outcomes, sleeps,
                 abort_point, cmd, run_pc, success, emitted, execute_log, abort_calls, on_abort_calls>>
    /\ UNCHANGED <<flag_log, update_log, undo_result, queue, halted, events>>

\* A faulty ExceptConnection: a connection error is retried like a timeout.
ExceptConnection_Retried ==
    /\ pc = "except_connection"
    /\ IF retry < client.max_retries /\ ~client.aborted
       THEN /\ sleep_time' = client.backoff_time * Pow2(retry)
            /\ pc' = "sleep"
            /\ UNCHANGED <<retry, returned>>
       ELSE /\ returned' = Raise("TranslationImpossibleError", attempt.kind)
            /\ pc' = "done"
            /\ UNCHANGED <<retry, sleep_time>>
    /\ UNCHANGED <<client, attempt, response, outcomes, sleeps,
                 abort_point, cmd, run_pc, success, emitted, execute_log, abort_calls, on_abort_calls>>
    /\ UNCHANGED <<flag_log, update_log, undo_result, queue, halted, events>>

\* lines 88-90: a connection error. Raised as TranslationImpossibleError
\* unless the flag is set; then the clause ends and the loop goes on.
ExceptConnection ==
    /\ pc = "except_connection"
    /\ IF ~client.aborted
       THEN /\ returned' = Raise("TranslationImpossibleError", attempt.kind)
            /\ pc' = "done"
            /\ UNCHANGED retry
       ELSE /\ retry' = retry + 1
            /\ pc' = "for"
            /\ UNCHANGED returned
    /\ UNCHANGED <<client, attempt, sleep_time, response, outcomes, sleeps,
                 abort_point, cmd, run_pc, success, emitted, execute_log, abort_calls, on_abort_calls>>
    /\ UNCHANGED <<flag_log, update_log, undo_result, queue, halted, events>>

\* lines 92-93: any other Exception raised in the try body.
ExceptException ==
    /\ pc = "except_exception"
    /\ returned' = Raise("TranslationImpossibleError", attempt.kind)
    /\ pc' = "done"
    /\ UNCHANGED <<client, retry, attempt, sleep_time, response, outcomes, sleeps,
                 abort_point, cmd, run_pc, success, emitted, execute_log, abort_calls, on_abort_calls>>
    /\ UNCHANGED <<flag_log, update_log, undo_result, queue, halted, events>>

\* lines 75-76 and 85-86: time.sleep(...) followed by continue.
Sleep ==
    /\ pc = "sleep"
    /\ sleeps' = Append(sleeps, [retry |-> retry, seconds |-> sleep_time])
    /\ retry' = retry + 1
    /\ pc' = "for"
    /\ UNCHANGED <<client, attempt, sleep_time, response, returned, outcomes,
                 abort_point, cmd, run_pc, success, emitted, execute_log, abort_calls, on_abort_calls>>
    /\ UNCHANGED <<flag_log, update_log, undo_result, queue, halted, events>>

SendMessages ==
    \/ ForLoop
    \/ Create
    \/ Received
    \/ ExceptRateLimit
    \/ ExceptTimeout
    \/ ExceptConnection
    \/ ExceptException
    \/ Sleep

ClientNext ==
    \/ ClientAbort
    \/ ForLoop
    \/ Create
    \/ Received
    \/ ExceptRateLimit
    \/ ExceptTimeout
    \/ ExceptConnection
    \/ ExceptException
    \/ Sleep

\* ------------------------------------------------------- Command, by step
\* The command's aborted and terminal flags as they are at a point of run().
Flags(at) == [at |-> at, aborted |-> cmd.aborted, terminal |-> cmd.terminal]

\* A faulty Abort: the hook runs on every call, not only on the first.
Abort_HookEveryTime ==
    /\ abort_calls < MaxAborts
    /\ abort_calls' = abort_calls + 1
    /\ cmd' = [cmd EXCEPT !.aborted = TRUE]
    /\ on_abort_calls' = on_abort_calls + 1
    /\ UNCHANGED <<run_pc, success, emitted, execute_log,
                 client, pc, retry, attempt, sleep_time, response, returned, outcomes, sleeps,
                 abort_point>>
    /\ UNCHANGED <<flag_log, update_log, undo_result>>
    /\ UNCHANGED <<queue, halted, events>>

\* lines 44-47: Abort(), from any thread at any time. The hook on_abort
\* (lines 94-95) does nothing in the base class; its calls are counted.
Abort ==
    /\ abort_calls < MaxAborts
    /\ abort_calls' = abort_calls + 1
    /\ IF ~cmd.aborted
       THEN /\ cmd' = [cmd EXCEPT !.aborted = TRUE]
            /\ on_abort_calls' = on_abort_calls + 1
       ELSE UNCHANGED <<cmd, on_abort_calls>>
    /\ UNCHANGED <<flag_log, update_log, undo_result, queue, halted, events>>
    /\ UNCHANGED <<run_pc, success, emitted, execute_log,
                 client, pc, retry, attempt, sleep_time, response, returned, outcomes, sleeps,
                 abort_point>>
    /\ UNCHANGED <<flag_log, update_log, undo_result>>
    /\ UNCHANGED <<queue, halted, events>>

\* A faulty AddModelUpdate: the record is appended only while run() is in
\* progress; a call at another time is made but appends nothing.
AddModelUpdate_OnlyWhileRunning ==
    /\ Len(update_log) < MaxUpdates
    /\ cmd' = IF run_pc \in {"created", "done"}
              THEN cmd
              ELSE [cmd EXCEPT !.model_updates = Append(@, Len(@) + 1)]
    /\ UNCHANGED <<run_pc, success, emitted, execute_log, abort_calls, on_abort_calls,
                 client, pc, retry, attempt, sleep_time, response, returned, outcomes, sleeps,
                 abort_point>>
    /\ update_log' = Append(update_log, run_pc)
    /\ UNCHANGED <<flag_log, undo_result>>
    /\ UNCHANGED <<queue, halted, events>>

\* lines 49-52: AddModelUpdate() appends a fresh ModelUpdate and returns it.
\* The method has no guard: it can be called before, during and after run().
AddModelUpdate ==
    /\ Len(cmd.model_updates) < MaxUpdates
    /\ cmd' = [cmd EXCEPT !.model_updates = Append(@, Len(@) + 1)]
    /\ UNCHANGED <<run_pc, success, emitted, execute_log, abort_calls, on_abort_calls,
                 client, pc, retry, attempt, sleep_time, response, returned, outcomes, sleeps,
                 abort_point>>
    /\ update_log' = Append(update_log, run_pc)
    /\ UNCHANGED <<flag_log, undo_result>>
    /\ UNCHANGED <<queue, halted, events>>

\* A faulty RunStart: run() does not look at the aborted flag before it
\* calls execute().
RunStart_NoAbortCheck ==
    /\ run_pc = "created"
    /\ execute_log' = Append(execute_log, "call")
    /\ run_pc' = "execute"
    /\ UNCHANGED <<cmd, success, emitted, abort_calls, on_abort_calls,
                 client, pc, retry, attempt, sleep_time, response, returned, outcomes, sleeps,
                 abort_point>>
    /\ UNCHANGED <<flag_log, update_log, undo_result>>
    /\ UNCHANGED <<queue, halted, events>>

\* lines 58-68: the start of run(). An aborted command emits
\* commandExecuted(self, False) and returns; otherwise execute() is called.
RunStart ==
    /\ run_pc = "created"
    /\ IF cmd.aborted
       THEN /\ emitted' = Append(emitted, FALSE)
            /\ run_pc' = "done"
            /\ UNCHANGED execute_log
       ELSE /\ execute_log' = Append(execute_log, "call")
            /\ run_pc' = "execute"
            /\ UNCHANGED emitted
    /\ UNCHANGED <<cmd, success, abort_calls, on_abort_calls,
                 client, pc, retry, attempt, sleep_time, response, returned, outcomes, sleeps,
                 abort_point>>
    /\ flag_log' = IF cmd.aborted THEN Append(flag_log, Flags("emit")) ELSE flag_log
    /\ UNCHANGED <<update_log, undo_result>>
    /\ UNCHANGED <<queue, halted, events>>

\* An execute() override marks the command terminal (the field of line 29).
ExecuteSetTerminal ==
    /\ run_pc = "execute"
    /\ ~cmd.terminal
    /\ cmd' = [cmd EXCEPT !.terminal = TRUE]
    /\ UNCHANGED <<run_pc, success, emitted, execute_log, abort_calls, on_abort_calls,
                 client, pc, retry, attempt, sleep_time, response, returned, outcomes, sleeps,
                 abort_point>>
    /\ UNCHANGED <<flag_log, update_log, undo_result>>
    /\ UNCHANGED <<queue, halted, events>>

\* line 68: execute() returns and its value is stored in `success`.
ExecuteReturn ==
    /\ run_pc = "execute"
    /\ \E b \in BOOLEAN :
        /\ success' = b
        /\ execute_log' = Append(execute_log, IF b THEN "return_true" ELSE "return_false")
    /\ run_pc' = "returned"
    /\ UNCHANGED <<cmd, emitted, abort_calls, on_abort_calls,
                 client, pc, retry, attempt, sleep_time, response, returned, outcomes, sleeps,
                 abort_point>>
    /\ flag_log' = Append(flag_log, Flags("return"))
    /\ UNCHANGED <<update_log, undo_result>>
    /\ UNCHANGED <<queue, halted, events>>

\* A faulty ExecuteRaise: run() has no except clause that catches the
\* exception, which leaves run() and reaches the worker pool.
ExecuteRaise_Uncaught ==
    /\ run_pc = "execute"
    /\ execute_log' = Append(execute_log, "raise")
    /\ run_pc' = "propagated"
    /\ UNCHANGED <<cmd, success, emitted, abort_calls, on_abort_calls,
                 client, pc, retry, attempt, sleep_time, response, returned, outcomes, sleeps,
                 abort_point>>
    /\ UNCHANGED <<flag_log, update_log, undo_result>>
    /\ UNCHANGED <<queue, halted, events>>

\* lines 84-85 and 80: execute() raises (the base class raises
\* NotImplementedError) and control goes to the except clause of run().
ExecuteRaise ==
    /\ run_pc = "execute"
    /\ execute_log' = Append(execute_log, "raise")
    /\ run_pc' = "except"
    /\ UNCHANGED <<cmd, success, emitted, abort_calls, on_abort_calls,
                 client, pc, retry, attempt, sleep_time, response, returned, outcomes, sleeps,
                 abort_point>>
    /\ UNCHANGED <<flag_log, update_log, undo_result>>
    /\ UNCHANGED <<queue, halted, events>>

\* A faulty RunCheckFlags: the terminal flag is not looked at.
RunCheckFlags_IgnoreTerminal ==
    /\ run_pc = "returned"
    /\ success' = IF cmd.aborted THEN FALSE ELSE success
    /\ run_pc' = "emit"
    /\ UNCHANGED <<cmd, emitted, execute_log, abort_calls, on_abort_calls,
                 client, pc, retry, attempt, sleep_time, response, returned, outcomes, sleeps,
                 abort_point>>
    /\ flag_log' = Append(flag_log, Flags("check"))
    /\ UNCHANGED <<update_log, undo_result>>
    /\ UNCHANGED <<queue, halted, events>>

\* A faulty RunCheckFlags: the aborted flag is not looked at.
RunCheckFlags_IgnoreAborted ==
    /\ run_pc = "returned"
    /\ success' = IF cmd.terminal THEN FALSE ELSE success
    /\ run_pc' = "emit"
    /\ UNCHANGED <<cmd, emitted, execute_log, abort_calls, on_abort_calls,
                 client, pc, retry, attempt, sleep_time, response, returned, outcomes, sleeps,
                 abort_point>>
    /\ flag_log' = Append(flag_log, Flags("check"))
    /\ UNCHANGED <<update_log, undo_result>>
    /\ UNCHANGED <<queue, halted, events>>

\* lines 70-76: after execute() the flags are read; an aborted or terminal
\* command is reported as a failure.
RunCheckFlags ==
    /\ run_pc = "returned"
    /\ success' = IF cmd.aborted THEN FALSE
                  ELSE IF cmd.terminal THEN FALSE
                  ELSE success
    /\ run_pc' = "emit"
    /\ UNCHANGED <<cmd, emitted, execute_log, abort_calls, on_abort_calls,
                 client, pc, retry, attempt, sleep_time, response, returned, outcomes, sleeps,
                 abort_point>>
    /\ flag_log' = Append(flag_log, Flags("check"))
    /\ UNCHANGED <<update_log, undo_result>>
    /\ UNCHANGED <<queue, halted, events>>

\* line 78: commandExecuted.emit(self, success)
RunEmit ==
    /\ run_pc = "emit"
    /\ emitted' = Append(emitted, success)
    /\ run_pc' = "done"
    /\ UNCHANGED <<cmd, success, execute_log, abort_calls, on_abort_calls,
                 client, pc, retry, attempt, sleep_time, response, returned, outcomes, sleeps,
                 abort_point>>
    /\ flag_log' = Append(flag_log, Flags("emit"))
    /\ UNCHANGED <<update_log, undo_result>>
    /\ UNCHANGED <<queue, halted, events>>

\* A faulty RunExcept: the except clause logs the error and emits nothing.
RunExcept_NoEmit ==
    /\ run_pc = "except"
    /\ run_pc' = "done"
    /\ UNCHANGED <<cmd, success, emitted, execute_log, abort_calls, on_abort_calls,
                 client, pc, retry, attempt, sleep_time, response, returned, outcomes, sleeps,
                 abort_point>>
    /\ UNCHANGED <<flag_log, update_log, undo_result>>
    /\ UNCHANGED <<queue, halted, events>>

\* lines 80-82: the except clause of run() emits commandExecuted(self, False).
RunExcept ==
    /\ run_pc = "except"
    /\ emitted' = Append(emitted, FALSE)
    /\ run_pc' = "done"
    /\ UNCHANGED <<cmd, success, execute_log, abort_calls, on_abort_calls,
                 client, pc, retry, attempt, sleep_time, response, returned, outcomes, sleeps,
                 abort_point>>
    /\ flag_log' = Append(flag_log, Flags("emit"))
    /\ UNCHANGED <<update_log, undo_result>>
    /\ UNCHANGED <<queue, halted, events>>

\* A subclass constructor sets can_undo and skip_undo (the fields of lines
\* 23-24) to something else than the defaults, before the command is used.
SetUndoFlags ==
    /\ run_pc = "created"
    /\ abort_calls = 0
    /\ update_log = <<>>
    /\ undo_result = "none"
    /\ cmd.can_undo /\ ~cmd.skip_undo
    /\ \E cu, su \in BOOLEAN :
        /\ ~(cu /\ ~su)
        /\ cmd' = [cmd EXCEPT !.can_undo = cu, !.skip_undo = su]
    /\ UNCHANGED <<run_pc, success, emitted, execute_log, abort_calls, on_abort_calls,
                 client, pc, retry, attempt, sleep_time, response, returned, outcomes, sleeps,
                 abort_point>>
    /\ UNCHANGED <<flag_log, update_log, undo_result>>
    /\ UNCHANGED <<queue, halted, events>>

\* lines 87-92: undo() of the base class. With skip_undo set it logs a warning
\* and returns False; otherwise it raises NotImplementedError. can_undo is
\* not read, and UndoError (lines 110-111) is raised nowhere.
Undo ==
    /\ undo_result = "none"
    /\ undo_result' = IF cmd.skip_undo THEN "False" ELSE "NotImplementedError"
    /\ UNCHANGED <<cmd, run_pc, success, emitted, execute_log, abort_calls, on_abort_calls,
                 client, pc, retry, attempt, sleep_time, response, returned, outcomes, sleeps,
                 abort_point>>
    /\ UNCHANGED <<flag_log, update_log>>
    /\ UNCHANGED <<queue, halted, events>>

Run ==
    \/ RunStart
    \/ ExecuteSetTerminal
    \/ ExecuteReturn
    \/ ExecuteRaise
    \/ RunCheckFlags
    \/ RunEmit
    \/ RunExcept

CommandNext ==
    \/ SetUndoFlags
    \/ Abort
    \/ AddModelUpdate
    \/ Undo
    \/ RunStart
    \/ ExecuteSetTerminal
    \/ ExecuteReturn
    \/ ExecuteRaise
    \/ RunCheckFlags
    \/ RunEmit
    \/ RunExcept

\* ------------------------------------------------- the command queue
\* The queue that schedules commands is described by the specification
\* (section 4.3); Command.py only declares what it reads: is_blocking
\* (line 25) and terminal (line 29).
Event(ev, id) == [ev |-> ev, id |-> id]

Ids(status) == {i \in 1..Len(queue) : queue[i].status = status}

\* A faulty Submit: the halted flag is not looked at.
Submit_IgnoreHalted ==
    /\ Len(queue) < MaxCommands
    /\ \E b \in BOOLEAN :
        queue' = Append(queue, [is_blocking |-> b, status |-> "queued", terminal |-> FALSE])
    /\ events' = Append(events, Event("submit", Len(queue) + 1))
    /\ UNCHANGED halted
    /\ UNCHANGED <<client, pc, retry, attempt, sleep_time, response, returned, outcomes, sleeps,
                 abort_point, cmd, run_pc, success, emitted, execute_log, abort_calls,
                 on_abort_calls, flag_log, update_log, undo_result>>

\* Submit(command): the command joins the queue, or is rejected with
\* QueueHalted when a terminal command has completed.
Submit ==
    /\ Len(queue) < MaxCommands
    /\ \E b \in BOOLEAN :
        queue' = Append(queue, [is_blocking |-> b,
                                status |-> IF halted THEN "rejected" ELSE "queued",
                                terminal |-> FALSE])
    /\ events' = Append(events,
                        Event(IF halted THEN "QueueHalted" ELSE "submit", Len(queue) + 1))
    /\ UNCHANGED halted
    /\ UNCHANGED <<client, pc, retry, attempt, sleep_time, response, returned, outcomes, sleeps,
                 abort_point, cmd, run_pc, success, emitted, execute_log, abort_calls,
                 on_abort_calls, flag_log, update_log, undo_result>>

\* The command that may start next: the one that has waited longest.
NextQueued == CHOOSE i \in Ids("queued") : \A j \in Ids("queued") : i <= j

\* A faulty Dispatch: a command starts although a blocking command runs.
Dispatch_IgnoreBlocking ==
    /\ ~halted
    /\ Ids("queued") # {}
    /\ Cardinality(Ids("running")) < PoolSize
    /\ queue' = [queue EXCEPT ![NextQueued].status = "running"]
    /\ events' = Append(events, Event("start", NextQueued))
    /\ UNCHANGED halted
    /\ UNCHANGED <<client, pc, retry, attempt, sleep_time, response, returned, outcomes, sleeps,
                 abort_point, cmd, run_pc, success, emitted, execute_log, abort_calls,
                 on_abort_calls, flag_log, update_log, undo_result>>

\* A worker starts the command at the head of the queue: never once the queue
\* is halted, never while a blocking command runs, and a blocking command
\* only when nothing else runs.
Dispatch ==
    /\ ~halted
    /\ Ids("queued") # {}
    /\ Cardinality(Ids("running")) < PoolSize
    /\ \A j \in Ids("running") : ~queue[j].is_blocking
    /\ queue[NextQueued].is_blocking => Ids("running") = {}
    /\ queue' = [queue EXCEPT ![NextQueued].status = "running"]
    /\ events' = Append(events, Event("start", NextQueued))
    /\ UNCHANGED halted
    /\ UNCHANGED <<client, pc, retry, attempt, sleep_time, response, returned, outcomes, sleeps,
                 abort_point, cmd, run_pc, success, emitted, execute_log, abort_calls,
                 on_abort_calls, flag_log, update_log, undo_result>>

\* A running command completes (commandExecuted is emitted); when its terminal
\* flag is set the queue is halted.
Complete ==
    /\ \E i \in Ids("running"), t \in BOOLEAN :
        /\ queue' = [queue EXCEPT ![i].status = "completed", ![i].terminal = t]
        /\ events' = Append(events, Event("complete", i))
        /\ halted' = (halted \/ t)
    /\ UNCHANGED <<client, pc, retry, attempt, sleep_time, response, returned, outcomes, sleeps,
                 abort_point, cmd, run_pc, success, emitted, execute_log, abort_calls,
                 on_abort_calls, flag_log, update_log, undo_result>>

QueueNext ==
    \/ Submit
    \/ Dispatch
    \/ Complete

\* ---------------------------------------------------------- specifications
\* One call of _send_messages, with the abort flag set at any moment.
ClientCall == ClientInit /\ CommandInit /\ QueueInit
ClientSpec == ClientCall /\ [][ClientNext]_vars

\* The same, where the calling thread keeps running until the call ends: the
\* service answers or the request fails, and every sleep ends.
ClientFairSpec == ClientSpec /\ WF_vars(SendMessages)

\* One command, run once, with Abort() and AddModelUpdate() from any thread.
CommandAlone == ClientIdle /\ CommandInit /\ QueueInit
CommandSpec == CommandAlone /\ [][CommandNext]_vars

\* Commands submitted to the queue, started by its workers and completed.
QueueAlone == ClientIdle /\ CommandInit /\ QueueInit
QueueSpec == QueueAlone /\ [][QueueNext]_vars

\* ------------------------------------------------------------ the claims
Last(q) == q[Len(q)]

AllAre(q, x) == \A i \in 1..Len(q) : q[i] = x

\* q is n times x followed by y
RunThen(q, x, y) ==
    /\ Len(q) >= 1
    /\ \A i \in 1..(Len(q) - 1) : q[i] = x
    /\ Last(q) = y

RECURSIVE SumSeconds(_)
SumSeconds(q) == IF q = <<>> THEN 0 ELSE q[1].seconds + SumSeconds(Tail(q))

Done == pc = "done"

\* C1: whatever the service answers and whatever max_retries is, one call of
\* _send_messages issues at most max_retries + 1 requests, and it ends: with
\* the response, with None, or with an error.
C1_BoundedAttemptsAndTermination ==
    /\ [](Len(outcomes) <= client.max_retries + 1)
    /\ <>(Done /\ returned.kind \in {"return", "raise"})

\* C1 witness: a call that used all its attempts on a mix of rate limits and
\* timeouts and then ended with an error.
C1_Witness ==
    /\ Done
    /\ client.max_retries >= 2
    /\ Len(outcomes) = client.max_retries + 1
    /\ \E i, j \in 1..Len(outcomes) :
          outcomes[i] = "ratelimit_delay" /\ outcomes[j] = "timeout"
    /\ returned.kind = "raise"

\* C2: when every attempt times out and the abort flag is never set, exactly
\* max_retries + 1 attempts are made, a sleep follows every attempt but the
\* last, and the call fails with TranslationImpossibleError.
C2_TimeoutOnEveryAttempt ==
    (Done /\ ~client.aborted /\ outcomes # <<>> /\ AllAre(outcomes, "timeout"))
    => /\ Len(outcomes) = client.max_retries + 1
       /\ Len(sleeps) = client.max_retries
       /\ \A i \in 1..Len(sleeps) : sleeps[i].retry = i - 1
       /\ returned = Raise("TranslationImpossibleError", NoException)

\* C2 witness: max_retries = 2 and three timeouts.
C2_Witness ==
    /\ Done
    /\ ~client.aborted
    /\ client.max_retries = 2
    /\ outcomes = <<"timeout", "timeout", "timeout">>
    /\ Len(sleeps) = 2

\* C3: when the first k attempts time out and the next one succeeds, with the
\* abort flag never set, the call returns the response, the sleep after the
\* attempt of index i is backoff_time * 2^i, and the sleeps add up to
\* backoff_time * (2^0 + ... + 2^(k-1)) = backoff_time * (2^k - 1).
C3_BackoffSum ==
    (Done /\ ~client.aborted /\ RunThen(outcomes, "timeout", "success"))
    => /\ returned = Return("response")
       /\ "text" \in response
       /\ Len(sleeps) = Len(outcomes) - 1
       /\ \A i \in 1..Len(sleeps) :
             sleeps[i] = [retry |-> i - 1,
                          seconds |-> client.backoff_time * 2^(i - 1)]
       /\ SumSeconds(sleeps) = client.backoff_time * (2^(Len(outcomes) - 1) - 1)

\* C3 witness: three timeouts, then a success, with a backoff of 2: the sleeps
\* are 2, 4 and 8.
C3_Witness ==
    /\ Done
    /\ ~client.aborted
    /\ client.backoff_time = 2
    /\ client.max_retries > 3
    /\ outcomes = <<"timeout", "timeout", "timeout", "success">>
    /\ SumSeconds(sleeps) = 14

\* No sleep was made after the attempt that is the i-th request.
NoSleepAfter(i) == \A j \in 1..Len(sleeps) : sleeps[j].retry < i - 1

\* C4 (as claimed): a malformed result ends the call with
\* TranslationResponseError as the error the caller sees, with no further
\* attempt and no sleep.
C4_MalformedIsResponseError ==
    (Done /\ ~client.aborted /\ outcomes # <<>> /\ Last(outcomes) = "malformed")
    => /\ returned.kind = "raise"
       /\ returned.value = "TranslationResponseError"
       /\ NoSleepAfter(Len(outcomes))

\* C5 (as claimed): a retry after a rate limit with a delay uses up no
\* attempt, so a call that has met nothing but such rate limits has not failed.
C5_RateLimitRetriesUnlimited ==
    (~client.aborted /\ AllAre(outcomes, "ratelimit_delay"))
    => returned.kind # "raise"

\* C5 (amended): a rate limit with a delay is followed by a sleep of that
\* delay and a retry, and the retry uses up one of the max_retries + 1
\* attempts. With the abort flag never set, k such rate limits followed by a
\* success give the response when k <= max_retries, and max_retries + 1 of
\* them in a row end the call with TranslationImpossibleError.
C5_RateLimitRetriesBounded ==
    /\ (Done /\ ~client.aborted /\ RunThen(outcomes, "ratelimit_delay", "success"))
       => /\ returned = Return("response")
          /\ Len(outcomes) - 1 <= client.max_retries
          /\ Len(sleeps) = Len(outcomes) - 1
          /\ \A i \in 1..Len(sleeps) :
                sleeps[i].retry = i - 1 /\ sleeps[i].seconds \in 1..MaxDelay
    /\ (Done /\ ~client.aborted /\ outcomes # <<>> /\ AllAre(outcomes, "ratelimit_delay"))
       => /\ Len(outcomes) = client.max_retries + 1
          /\ Len(sleeps) = client.max_retries + 1
          /\ returned = Raise("TranslationImpossibleError", NoException)
    /\ (pc = "sleep" /\ Last(outcomes) = "ratelimit_delay")
       => /\ sleep_time = RetryAfter(attempt.headers)
          /\ sleep_time \in 1..MaxDelay
          /\ retry = Len(outcomes) - 1

\* C5 witness: the call used its last attempt on a success after rate limits
\* with a delay on every earlier one.
C5_Witness ==
    /\ Done
    /\ ~client.aborted
    /\ client.max_retries = 2
    /\ outcomes = <<"ratelimit_delay", "ratelimit_delay", "success">>
    /\ returned = Return("response")

\* C6: a rate limit without a delay ends the call at that attempt: the
\* RateLimitError itself is raised, not wrapped, no sleep follows the attempt
\* and no later attempt is made; on the first attempt, one attempt is made.
C6_QuotaExceeded ==
    \A i \in 1..Len(outcomes) :
        outcomes[i] = "ratelimit_nodelay"
        => /\ i = Len(outcomes)
           /\ NoSleepAfter(i)
           /\ pc \in {"except_ratelimit", "done"}
           /\ Done => returned = Raise("RateLimitError", NoException)

\* C6 witness: the first attempt meets a rate limit without a delay.
C6_Witness ==
    /\ Done
    /\ outcomes = <<"ratelimit_nodelay">>
    /\ client.max_retries > 0
    /\ returned.value = "RateLimitError"

\* C7: at the head of every attempt the abort flag is read, and when it is set
\* the call returns None and issues no request, then or later. A flag set
\* between two attempts (during the sleep or before the next head of the loop)
\* while an attempt remains ends the call with None and the requests made so
\* far: 2 requests when that is between attempts 2 and 3 of a run of timeouts
\* with max_retries = 5.
C7_AbortCheckedBeforeEachAttempt ==
    /\ [][(pc = "for" /\ retry <= client.max_retries /\ client.aborted)
            => (pc' = "done" /\ returned' = Return("None") /\ outcomes' = outcomes)]_vars
    /\ [][Done => (pc' = "done" /\ outcomes' = outcomes /\ returned' = returned)]_vars
    /\ []((Done /\ abort_point.pc \in {"sleep", "for"}
                /\ abort_point.requests <= client.max_retries)
            => (Len(outcomes) = abort_point.requests /\ returned = Return("None")))

\* C7 witness: max_retries = 5, two timeouts, the flag set during the sleep
\* that follows the second, and the call over.
C7_Witness ==
    /\ Done
    /\ client.max_retries = 5
    /\ outcomes = <<"timeout", "timeout">>
    /\ abort_point = [pc |-> "sleep", requests |-> 2]
    /\ returned = Return("None")

\* C8: a connection error met while the abort flag is not set, and any other
\* error, end the call at that attempt with TranslationImpossibleError
\* wrapping the error, with no sleep after the attempt and no later attempt.
C8_FatalErrors ==
    \A i \in 1..Len(outcomes) :
        /\ outcomes[i] = "other"
           => /\ i = Len(outcomes)
              /\ NoSleepAfter(i)
              /\ pc \in {"except_exception", "done"}
              /\ Done => returned = Raise("TranslationImpossibleError", "APIError")
        /\ (outcomes[i] = "connection" /\ ~client.aborted)
           => /\ i = Len(outcomes)
              /\ NoSleepAfter(i)
              /\ pc \in {"except_connection", "done"}
              /\ Done => returned = Raise("TranslationImpossibleError", "APIConnectionError")

\* C8 witness: after a timeout, a connection error on the second of several
\* attempts ends the call.
C8_Witness ==
    /\ Done
    /\ ~client.aborted
    /\ client.max_retries >= 3
    /\ outcomes = <<"timeout", "connection">>
    /\ returned = Raise("TranslationImpossibleError", "APIConnectionError")

\* C9: when Abort() was called before run() starts, run() does not call
\* execute(): it emits commandExecuted with success = False, leaves
\* model_updates (and every other field) as it was, and is over for good.
C9_AbortBeforeRun ==
    /\ [][(run_pc = "created" /\ cmd.aborted /\ run_pc' # run_pc)
            => /\ run_pc' = "done"
               /\ emitted' = <<FALSE>>
               /\ execute_log' = <<>>
               /\ cmd'.model_updates = cmd.model_updates
               /\ cmd' = cmd]_vars
    /\ [][run_pc = "done"
            => (run_pc' = "done" /\ execute_log' = execute_log /\ emitted' = emitted)]_vars

\* C9 witness: a command with a model update that was aborted before run();
\* run() is over, execute() was never called and the update is still there.
C9_Witness ==
    /\ run_pc = "done"
    /\ cmd.aborted
    /\ execute_log = <<>>
    /\ emitted = <<FALSE>>
    /\ cmd.model_updates = <<1>>
    /\ on_abort_calls = 1

\* C10: one run() emits commandExecuted exactly once on every path: nothing
\* is emitted before run() is over, and exactly one emission has been made
\* when it is, whether the command was aborted before the start, execute()
\* returned True or False, the command was aborted or made terminal during
\* execute(), or execute() raised.
C10_EmittedExactlyOnce ==
    /\ run_pc # "done" => emitted = <<>>
    /\ run_pc = "done" => Len(emitted) = 1

\* C10 witness: execute() raised, and run() has emitted once.
C10_Witness ==
    /\ run_pc = "done"
    /\ execute_log = <<"call", "raise">>
    /\ emitted = <<FALSE>>

\* C11: an exception raised by execute() is caught inside run(): control goes
\* to the except clause, which emits commandExecuted with success = False,
\* and the exception never leaves run().
C11_ExceptionsCaught ==
    /\ run_pc # "propagated"
    /\ (execute_log # <<>> /\ Last(execute_log) = "raise")
       => /\ run_pc \in {"except", "done"}
          /\ run_pc = "done" => emitted = <<FALSE>>
          /\ run_pc = "except" => emitted = <<>>

\* C11 witness: execute() added a model update and then raised; run() is over
\* and has reported a failure.
C11_Witness ==
    /\ run_pc = "done"
    /\ execute_log = <<"call", "raise">>
    /\ update_log = <<"execute">>
    /\ ~cmd.aborted
    /\ emitted = <<FALSE>>

\* The flags were recorded at the given point of run().
Logged(at) == \E i \in 1..Len(flag_log) : flag_log[i].at = at

\* The flags as they were at the given point of run().
FlagsAt(at) == flag_log[CHOOSE i \in 1..Len(flag_log) : flag_log[i].at = at]

\* No Abort() took effect between execute()'s return and the emission.
NoAbortSinceReturn ==
    Logged("return") => FlagsAt("return").aborted = FlagsAt("emit").aborted

\* C12: in a run() where no Abort() takes effect between execute()'s return
\* and the emission, commandExecuted carries success = True exactly when
\* execute() returned True and the aborted and terminal flags were both False
\* at that return; an aborted or terminal command is reported as a failure.
C12_SuccessValue ==
    (run_pc = "done" /\ NoAbortSinceReturn)
    => /\ Len(emitted) = 1
       /\ emitted[1] = (/\ Logged("return")
                        /\ Last(execute_log) = "return_true"
                        /\ ~FlagsAt("return").aborted
                        /\ ~FlagsAt("return").terminal)
       /\ (FlagsAt("emit").aborted \/ FlagsAt("emit").terminal) => emitted[1] = FALSE

\* C12 witness: execute() made the command terminal and returned True; no
\* Abort() was ever called, and a failure was reported.
C12_Witness ==
    /\ run_pc = "done"
    /\ abort_calls = 0
    /\ execute_log = <<"call", "return_true">>
    /\ cmd.terminal
    /\ emitted = <<FALSE>>

\* C13: the aborted flag only goes from False to True, whatever is done to
\* the command, and Abort() is idempotent: the on_abort hook runs on the first
\* call only, and a later call changes nothing of the command.
C13_AbortMonotonicIdempotent ==
    /\ [][cmd.aborted => cmd'.aborted]_vars
    /\ [](on_abort_calls = IF cmd.aborted THEN 1 ELSE 0)
    /\ [](cmd.aborted <=> abort_calls > 0)
    /\ [][(cmd.aborted /\ abort_calls' # abort_calls)
            => /\ cmd' = cmd
               /\ on_abort_calls' = on_abort_calls
               /\ UNCHANGED <<run_pc, success, emitted, execute_log>>]_vars

\* C13 witness: Abort() was called twice while execute() was in progress, the
\* hook ran once, and run() went on to report the failure.
C13_Witness ==
    /\ abort_calls = 2
    /\ on_abort_calls = 1
    /\ cmd.aborted
    /\ run_pc = "done"
    /\ Logged("return")
    /\ emitted = <<FALSE>>

\* C14 (as claimed): undo() of a command that is not undoable (can_undo is
\* False, or skip_undo is True) fails with UndoError.
C14_UndoOfNotUndoableRaisesUndoError ==
    (undo_result # "none" /\ (~cmd.can_undo \/ cmd.skip_undo))
    => undo_result = "UndoError"

\* C15 (as claimed): AddModelUpdate appends only while the command is
\* Running: no record of model_updates was appended by a call made before
\* run() started or after run() completed.
C15_AppendsOnlyWhileRunning ==
    /\ Len(cmd.model_updates) = Len(update_log)
    /\ \A i \in 1..Len(update_log) : update_log[i] \notin {"created", "done"}

\* C15 (amended): AddModelUpdate has no guard on the command's state: a call
\* made before run() has started, while it runs or after it has completed
\* appends exactly one fresh record at the end of model_updates and leaves the
\* earlier records in place.
C15_AlwaysAppendsOneRecord ==
    /\ [](Len(cmd.model_updates) = Len(update_log))
    /\ [][update_log' # update_log
            => /\ update_log' = Append(update_log, run_pc)
               /\ Len(cmd'.model_updates) = Len(cmd.model_updates) + 1
               /\ SubSeq(cmd'.model_updates, 1, Len(cmd.model_updates)) = cmd.model_updates
               /\ \A i \in 1..Len(cmd.model_updates) :
                     cmd.model_updates[i] # Last(cmd'.model_updates)]_vars
    /\ [][cmd'.model_updates # cmd.model_updates => update_log' # update_log]_vars

\* C15 witness: one record was appended before run() started and one after it
\* completed, and both are in the list.
C15_Witness ==
    /\ run_pc = "done"
    /\ update_log = <<"created", "done">>
    /\ cmd.model_updates = <<1, 2>>

Has(ev, id) == \E p \in 1..Len(events) : events[p] = Event(ev, id)

Pos(ev, id) == CHOOSE p \in 1..Len(events) : events[p] = Event(ev, id)

\* Command i was submitted while command j was outstanding: after j was
\* submitted and before j completed.
SubmittedDuring(i, j) ==
    /\ Has("submit", i) /\ Has("submit", j)
    /\ Pos("submit", j) < Pos("submit", i)
    /\ Has("complete", j) => Pos("submit", i) < Pos("complete", j)

\* C16: a command submitted while a blocking command is outstanding does not
\* start before that command's completion, and the commands held behind a
\* blocking command start in the order they arrived.
C16_BlockingOrder ==
    \A j \in 1..Len(queue) : \A i \in 1..Len(queue) :
        (queue[j].is_blocking /\ SubmittedDuring(i, j) /\ Has("start", i))
        => /\ Has("complete", j)
           /\ Pos("complete", j) < Pos("start", i)
           /\ \A k \in 1..Len(queue) :
                 (SubmittedDuring(k, j) /\ k < i)
                 => (Has("start", k) /\ Pos("start", k) < Pos("start", i))

\* C16 witness: a blocking command was running when two more commands
\* arrived; it completed, and then both were started.
C16_Witness ==
    /\ Len(queue) = 3
    /\ queue[1].is_blocking
    /\ Has("start", 1) /\ SubmittedDuring(2, 1) /\ SubmittedDuring(3, 1)
    /\ Pos("start", 1) < Pos("submit", 2)
    /\ Has("start", 2) /\ Has("start", 3)

\* C17: once a command has completed with its terminal flag set, no command
\* is started any more and every later Submit is rejected with QueueHalted.
C17_TerminalHalts ==
    \A p \in 1..Len(events) :
        (events[p].ev = "complete" /\ queue[events[p].id].terminal)
        => /\ halted
           /\ \A r \in (p + 1)..Len(events) :
                 events[r].ev \in {"QueueHalted", "complete"}

\* C17 witness: a terminal command completed while another command was held
\* in the queue; the held command has not started and a later Submit was
\* rejected.
C17_Witness ==
    /\ Len(queue) = 3
    /\ queue[1].terminal /\ queue[1].status = "completed"
    /\ queue[2].status = "queued"
    /\ Pos("submit", 2) < Pos("complete", 1)
    /\ queue[3].status = "rejected"

\* The abort flag was set while the last request was in flight or before the
\* except clause that handles its failure read the flag.
AbortSeenByHandler ==
    \/ abort_point.pc = "create" /\ abort_point.requests = Len(outcomes) - 1
    \/ /\ abort_point.pc \in {"except_timeout", "except_connection"}
       /\ abort_point.requests = Len(outcomes)

\* C18 (as claimed): when the abort flag is set at the moment an attempt ends
\* in a timeout or a connection failure, the call returns None and raises no
\* error, at every attempt index, the last one (index max_retries) included.
C18_AbortedFailureReturnsNone ==
    (/\ Done
     /\ outcomes # <<>>
     /\ Last(outcomes) \in {"timeout", "connection"}
     /\ AbortSeenByHandler)
    => returned = Return("None")

\* C19 (as claimed): the abort flag is read immediately before every sleep, the
\* backoff sleep after a timeout and the sleep after a rate-limit signal with a
\* resume delay alike; a sleep begins with the flag set only when the flag was
\* set after that read.
C19_FlagCheckedBeforeEverySleep ==
    (pc = "sleep" /\ client.aborted) => abort_point.pc = "sleep"

\* C20 (as claimed): under every interleaving of Abort() with run(), whenever
\* commandExecuted is emitted with success = true the aborted flag is false
\* at the moment of emission.
C20_NotAbortedAtEmission ==
    (Logged("emit") /\ emitted = <<TRUE>>) => ~FlagsAt("emit").aborted

\* C20 (amended): whenever commandExecuted is emitted with success = true the
\* aborted flag was false when execute() returned and when run() read it
\* after execute(); an Abort() after that read does not change what is emitted.
C20_NotAbortedWhenChecked ==
    (Logged("emit") /\ emitted = <<TRUE>>)
    => /\ Logged("return") /\ ~FlagsAt("return").aborted
       /\ Logged("check") /\ ~FlagsAt("check").aborted

\* Abort() arrived between run()'s read of the flag and the emission of success.
C20_Witness ==
    /\ run_pc = "done"
    /\ emitted = <<TRUE>>
    /\ Logged("check") /\ ~FlagsAt("check").aborted
    /\ Logged("emit") /\ FlagsAt("emit").aborted
    /\ cmd.aborted

====
